---- MODULE Spec2Model ----
(***************************************************************************)
(* Model of the mrc-to-tiff export pipeline: the volume/slice addressing   *)
(* of read.rs, the two TIFF writers of write.rs, the parallel export of    *)
(* convert.rs with its progress channel, and the background thread of      *)
(* gui.rs that runs convert and reports its error.                         *)
(***************************************************************************)
EXTENDS Integers, Sequences, FiniteSets, TLC

\* ------------------------------------------------------------------ bounds
\* nx and ny of the volumes get_slice is called on range over 1..MaxDim
MaxDim == 2
\* nz of the modelled volumes is at most MaxDepth
MaxDepth == 2
\* threads of the rayon pool: closures of the parallel map in flight at once
MaxThreads == 2
\* how many samples the backing buffer may be short of nx*ny*nz
MaxShort == 1
\* exports the user starts in one run of the GUI
MaxExports == 2

\* ------------------------------------------------------------------ state
VARIABLES
    nx, ny, nz,        \* dimensions reported by the MrcView
    bufLen,            \* length of view.data.as_i16_slice()
    endianess,         \* ArgEndianess: "Big" | "Native"
    start_at_frame,    \* usize, 1-indexed
    stop_at_frame,     \* Option<usize>: <<>> is None, <<n>> is Some(n)
    sink,              \* progress_q.is_some()
    rxAlive,           \* the Receiver of the progress channel still exists
    sent,              \* messages placed in the channel, in channel order
    pc,                \* position of the thread that runs convert
    panicMsg,          \* which panic ended the thread ("" when none)
    start, stop,       \* locals of convert
    workers,           \* per frame z of start..stop: state of the map closure
    done,              \* the AtomicUsize
    saved,             \* error kept by the collect into Result (<<>> = none)
    files,             \* destination directory: file name -> contents
    dir0,              \* the destination directory as the export found it
    host,              \* byte order of the machine: "II" little, "MM" big
    qz, qres,          \* a single get_slice call and its result
    encSamples,        \* the slice handed to the byte loop of the big-endian writer
    encBytes,          \* the image_bytes that loop leaves (<<>> before it ran)
    ifdDims,           \* <<width, height>> handed to the big-endian writer
    ifdOut,            \* the directory entries it builds from them (<<>> before)
    app,               \* the ConverterApp of gui.rs and whether its process runs
    build,             \* "debug" (overflow checks on) | "release" (wrapping)
    threads,           \* the export threads the GUI has spawned, oldest first
    chans              \* the mpsc queue of each of them

vars == <<nx, ny, nz, bufLen, endianess, start_at_frame, stop_at_frame, sink,
          rxAlive, sent, pc, panicMsg, start, stop, workers, done, saved,
          files, dir0, host, qz, qres, encSamples, encBytes, ifdDims, ifdOut,
          app, build, threads, chans>>

volumeVars == <<nx, ny, nz, bufLen>>
argVars == <<endianess, start_at_frame, stop_at_frame, sink, host, dir0>>
encVars == <<encSamples, encBytes, ifdDims, ifdOut>>
guiVars == <<app, build, threads, chans>>

\* ------------------------------------------------------------- the volume
\* i16 sample values the modelled buffers are filled with
Palette == <<0, 1, -1, 255, 256, -32768, 32767>>

\* the sample at flat offset i of the buffer
Buffer(i) == Palette[(i % Len(Palette)) + 1]

\* a range lookup that clamps the range to the slice instead of failing
SliceGet_Clamp(len, a, b) ==
    IF a <= b /\ a <= len
    THEN LET e == IF b <= len THEN b ELSE len
         IN  [ok |-> TRUE, err |-> "", data |-> [k \in 1..(e - a) |-> Buffer(a + k - 1)]]
    ELSE [ok |-> FALSE, err |-> "InvalidDimensions", data |-> <<>>]

\* ints.get(a..b): None (<<>>) unless a <= b <= len
SliceGet(len, a, b) ==
    IF a <= b /\ b <= len
    THEN [ok |-> TRUE, err |-> "", data |-> [k \in 1..(b - a) |-> Buffer(a + k - 1)]]
    ELSE [ok |-> FALSE, err |-> "InvalidDimensions", data |-> <<>>]

\* the range of a frame with the stride of a row
SliceBounds_RowStride(z) ==
    LET slice_size == nx * ny
        s == z * nx
    IN  <<s, s + slice_size>>

\* read.rs 22-26: slice_size = nx * ny; start = z * slice_size; the range
\* start..start + slice_size of the sample buffer
SliceBounds(z) ==
    LET slice_size == nx * ny
        s == z * slice_size
    IN  <<s, s + slice_size>>

\* get_slice with the stride of a row in place of the stride of a slice
get_slice_RowStride(z) ==
    IF z >= nz
    THEN [ok |-> FALSE, err |-> "InvalidDimensions", data |-> <<>>]
    ELSE LET slice_size == nx * ny
             s == z * nx
         IN  SliceGet(bufLen, s, s + slice_size)

\* Volume3D::get_slice
get_slice(z) ==
    IF z >= nz
    THEN [ok |-> FALSE, err |-> "InvalidDimensions", data |-> <<>>]
    ELSE SliceGet(bufLen, SliceBounds(z)[1], SliceBounds(z)[2])

\* ------------------------------------------------------------ the writers
\* decimal digits of n, most significant first
RECURSIVE Digits(_)
Digits(n) == IF n < 10 THEN <<n>> ELSE Append(Digits(n \div 10), n % 10)

\* the {idx:05} of format!: zero-padded to at least five digits
RECURSIVE ZeroPad(_, _)
ZeroPad(ds, width) == IF Len(ds) >= width THEN ds ELSE ZeroPad(<<0>> \o ds, width)

\* format!("slice_{idx:05}.tif"), joined to dest_path
OutPath(idx) == <<"slice_">> \o ZeroPad(Digits(idx), 5) \o <<".tif">>

\* `as u32` of a usize: the value modulo 2^32. Every usize of the model is
\* below 2^31, the largest integer TLC represents, where the cast keeps the value.
U32(n) == n

\* the two bytes of an i16, least significant first
BytesBE_LowFirst(v) == LET u == v % 65536 IN <<u % 256, u \div 256>>

\* the two bytes of an i16, most significant first
BytesBE(v) == LET u == v % 65536 IN <<u \div 256, u % 256>>

\* the two bytes of an i16 in the byte order `order` ("MM" big, "II" little)
BytesOf(v, order) ==
    IF order = "MM" THEN BytesBE(v) ELSE <<BytesBE(v)[2], BytesBE(v)[1]>>

\* image_bytes / the strip data: every sample of data in turn, two bytes each
RECURSIVE ImageBytes(_, _)
ImageBytes(data, order) ==
    IF data = <<>> THEN <<>>
    ELSE BytesOf(Head(data), order) \o ImageBytes(Tail(data), order)

\* a file that was in the destination directory before the export
PreExisting ==
    [order |-> "II", ImageLength |-> 0, ImageWidth |-> 0, RowsPerStrip |-> 0,
     StripByteCounts |-> 0, strip |-> <<7, 7>>]

\* a directory entry that is itself a directory
Directory ==
    [order |-> "dir", ImageLength |-> 0, ImageWidth |-> 0, RowsPerStrip |-> 0,
     StripByteCounts |-> 0, strip |-> <<>>]

IsDirectory(dir, filename) ==
    IF filename \in DOMAIN dir THEN dir[filename] = Directory ELSE FALSE

\* the result of a writer: Ok(()) with the directory it leaves, or the error
WriteOk(dir) == [ok |-> TRUE, err |-> "", dir |-> dir]
WriteErr(kind, dir) == [ok |-> FALSE, err |-> kind, dir |-> dir]

\* write_tiff_big_endian.
\* TiffFile::write_to opens the path with File::create, which creates the
\* file or truncates an existing one, and fails on a path that is a directory.
write_tiff_big_endian(dir, filename, data, width, height) ==
    LET image_bytes == ImageBytes(data, "MM")
        tiff == [order |-> "MM",
                 ImageLength |-> U32(height),
                 ImageWidth |-> U32(width),
                 RowsPerStrip |-> U32(height),
                 StripByteCounts |-> U32(Len(image_bytes)),
                 strip |-> image_bytes]
    IN  IF IsDirectory(dir, filename) THEN WriteErr("IsADirectory", dir)
        ELSE WriteOk((filename :> tiff) @@ dir)

\* write_tiff_native_endian on a host of byte order hostOrder.
\* File::create_new fails when the path exists.
write_tiff_native_endian(dir, filename, data, width, height, hostOrder) ==
    LET strip == ImageBytes(data, hostOrder)
        tiff == [order |-> hostOrder,
                 ImageLength |-> U32(height),
                 ImageWidth |-> U32(width),
                 RowsPerStrip |-> U32(height),
                 StripByteCounts |-> U32(Len(strip)),
                 strip |-> strip]
    IN  IF filename \in DOMAIN dir THEN WriteErr("AlreadyExists", dir)
        ELSE WriteOk((filename :> tiff) @@ dir)

\* ------------------------------------------------------- progress messages
\* ProgressMessage
\* InProgress with its two fields exchanged
InProgress_Swapped(num_done, total) ==
    [type |-> "InProgress", num_done |-> total, total |-> num_done, msg |-> ""]

\* convert.rs 22-27: enum ProgressMessage
InProgress(num_done, total) ==
    [type |-> "InProgress", num_done |-> num_done, total |-> total, msg |-> ""]
Done(total) == [type |-> "Done", num_done |-> 0, total |-> total, msg |-> ""]
Error(msg) == [type |-> "Error", num_done |-> 0, total |-> 0, msg |-> msg]

\* ---------------------------------------------------------------- convert
\* (start..stop).collect(): empty when start >= stop
Idxs == start..(stop - 1)

\* the length taken for the end of the range
Total_Stop == stop

\* idxs.len()
Total == Cardinality(Idxs)

\* a range that takes its end in
FrameRange_Inclusive(s, e) == s..e

\* convert.rs 58: start..stop, the end left out
FrameRange(s, e) == s..(e - 1)

\* an assertion that lets every range pass
AssertRange_Missing(s, e) == TRUE

\* convert.rs 55: assert!(start <= stop)
AssertRange(s, e) == s <= e

IdleWorker == [pc |-> "idle", num |-> 0, err |-> "", path |-> <<>>]

\* what the collect into Result keeps: the first error handed to it
Keep(z, kind) == IF saved = <<>> THEN <<[z |-> z, err |-> kind]>> ELSE saved

\* (nx, ny) of the exported volumes: one sample per slice, and a slice of
\* several rows and columns that is not square
Shapes == {<<1, 1>>, <<2, 3>>}

\* the destination directories: empty, holding a file slice_00001.tif or
\* slice_00002.tif of an earlier run, or holding a directory of that name
DestDirs ==
    {<<>>, OutPath(1) :> PreExisting, OutPath(2) :> PreExisting, OutPath(2) :> Directory}

\* the volumes, arguments and destination directories an export starts from
InitExport ==
    /\ \E shape \in Shapes : nx = shape[1] /\ ny = shape[2]
    /\ nz = MaxDepth
    /\ bufLen = nx * ny * nz
    /\ endianess \in {"Big", "Native"}
    /\ host \in {"II", "MM"}
    /\ start_at_frame \in 0..(MaxDepth + 1)
    /\ stop_at_frame \in {<<>>} \cup {<<n>> : n \in 0..(MaxDepth + 1)}
    /\ sink \in BOOLEAN
    /\ files \in DestDirs
    /\ dir0 = files
    /\ rxAlive = TRUE
    /\ sent = <<>>
    /\ pc = "call"
    /\ panicMsg = ""
    /\ start = 0
    /\ stop = 0
    /\ workers = <<>>
    /\ done = 0
    /\ saved = <<>>

\* no call of the byte loop or of the directory builder on its own
\* no GUI: convert is called directly
NoGui ==
    /\ app = <<>>
    /\ build = "release"
    /\ threads = <<>>
    /\ chans = <<>>

NoEncoderCall ==
    /\ encSamples = <<>>
    /\ encBytes = <<>>
    /\ ifdDims = <<>>
    /\ ifdOut = <<>>

Init ==
    /\ NoGui
    /\ InitExport
    /\ qz = 0
    /\ qres = <<>>
    /\ NoEncoderCall

\* convert.rs 52-63: the range, the assertion, the index list, the counter.
\* start_at_frame - 1 on a zero panics in a build with overflow checks and
\* wraps to usize::MAX in one without, where the assertion then fails.
Call ==
    /\ pc = "call"
    /\ IF start_at_frame = 0
       THEN /\ \E m \in {"attempt to subtract with overflow",
                         "assertion failed: start <= stop"} : panicMsg' = m
            /\ pc' = "panic"
            /\ UNCHANGED <<start, stop, workers>>
       ELSE LET s == start_at_frame - 1
                e == IF stop_at_frame = <<>> THEN nz ELSE stop_at_frame[1]
            IN  IF AssertRange(s, e)
                THEN /\ start' = s
                     /\ stop' = e
                     /\ workers' = [z \in FrameRange(s, e) |-> IdleWorker]
                     /\ pc' = "map"
                     /\ UNCHANGED panicMsg
                ELSE /\ panicMsg' = "assertion failed: start <= stop"
                     /\ pc' = "panic"
                     /\ UNCHANGED <<start, stop, workers>>
    /\ UNCHANGED <<volumeVars, argVars, rxAlive, sent, done, saved, files, qz, qres, encVars, guiVars>>

\* convert.rs 70: the index in the name of the file of frame z
OutIndex_Absolute(z, first) == z + 1

OutIndex(z, first) == z + 1 - first

\* frames whose closure a pool thread is running
InFlight == {z \in DOMAIN workers : workers[z].pc \in {"written", "added", "loaded"}}

\* convert.rs 69-79: the closure of frame z up to the end of the writer,
\* started on a free thread of the pool
Encode(z) ==
    /\ pc = "map"
    /\ z \in DOMAIN workers
    /\ workers[z].pc = "idle"
    /\ Cardinality(InFlight) < MaxThreads
    /\ LET slice == get_slice(z)
           idx == OutIndex(z, start)
           out_path == OutPath(idx)
       IN  IF ~slice.ok
           THEN /\ workers' = [workers EXCEPT ![z] = [@ EXCEPT !.pc = "err", !.err = slice.err]]
                /\ saved' = Keep(z, slice.err)
                /\ UNCHANGED files
           ELSE LET r == IF endianess = "Big"
                         THEN write_tiff_big_endian(files, out_path, slice.data, nx, ny)
                         ELSE write_tiff_native_endian(files, out_path, slice.data, nx, ny, host)
                IN  IF r.ok
                    THEN /\ files' = r.dir
                         /\ workers' = [workers EXCEPT ![z] =
                                           [@ EXCEPT !.pc = "written", !.path = out_path]]
                         /\ UNCHANGED saved
                    ELSE /\ workers' = [workers EXCEPT ![z] =
                                           [@ EXCEPT !.pc = "err", !.err = r.err]]
                         /\ saved' = Keep(z, r.err)
                         /\ UNCHANGED files
    /\ UNCHANGED <<volumeVars, argVars, rxAlive, sent, pc, panicMsg, start, stop, done,
                   qz, qres, encVars, guiVars>>

\* a store of 1 in place of the fetch_add
FetchAdd_Store(z) ==
    /\ pc = "map"
    /\ z \in DOMAIN workers
    /\ workers[z].pc = "written"
    /\ done' = 1
    /\ workers' = [workers EXCEPT ![z].pc = IF sink THEN "added" ELSE "ok"]
    /\ UNCHANGED <<volumeVars, argVars, rxAlive, sent, pc, panicMsg, start, stop, saved,
                   files, qz, qres, encVars, guiVars>>

\* convert.rs 80-81: done.fetch_add(1); without a sink the closure then ends
FetchAdd(z) ==
    /\ pc = "map"
    /\ z \in DOMAIN workers
    /\ workers[z].pc = "written"
    /\ done' = done + 1
    /\ workers' = [workers EXCEPT ![z].pc = IF sink THEN "added" ELSE "ok"]
    /\ UNCHANGED <<volumeVars, argVars, rxAlive, sent, pc, panicMsg, start, stop, saved,
                   files, qz, qres, encVars, guiVars>>

\* a load that reports the count before the frame's own increment
Load_Previous(z) ==
    /\ pc = "map"
    /\ z \in DOMAIN workers
    /\ workers[z].pc = "added"
    /\ workers' = [workers EXCEPT ![z] = [@ EXCEPT !.pc = "loaded", !.num = done - 1]]
    /\ UNCHANGED <<volumeVars, argVars, rxAlive, sent, pc, panicMsg, start, stop, done,
                   saved, files, qz, qres, encVars, guiVars>>

\* convert.rs 84: done.load(), the num_done of the message to send
Load(z) ==
    /\ pc = "map"
    /\ z \in DOMAIN workers
    /\ workers[z].pc = "added"
    /\ workers' = [workers EXCEPT ![z] = [@ EXCEPT !.pc = "loaded", !.num = done]]
    /\ UNCHANGED <<volumeVars, argVars, rxAlive, sent, pc, panicMsg, start, stop, done,
                   saved, files, qz, qres, encVars, guiVars>>

\* convert.rs 82-89: prog_q.send(InProgress)?; Ok(())
Send(z) ==
    /\ pc = "map"
    /\ z \in DOMAIN workers
    /\ workers[z].pc = "loaded"
    /\ IF rxAlive
       THEN /\ sent' = Append(sent, InProgress(workers[z].num, Total))
            /\ workers' = [workers EXCEPT ![z].pc = "ok"]
            /\ UNCHANGED saved
       ELSE /\ workers' = [workers EXCEPT ![z] = [@ EXCEPT !.pc = "err", !.err = "SendError"]]
            /\ saved' = Keep(z, "SendError")
            /\ UNCHANGED sent
    /\ UNCHANGED <<volumeVars, argVars, rxAlive, pc, panicMsg, start, stop, done, files,
                   qz, qres, encVars, guiVars>>

\* convert.rs 65-91: once an error was handed to the collect, frames that
\* have not started may be dropped without running
Skip(z) ==
    /\ pc = "map"
    /\ z \in DOMAIN workers
    /\ workers[z].pc = "idle"
    /\ saved # <<>>
    /\ workers' = [workers EXCEPT ![z].pc = "skipped"]
    /\ UNCHANGED <<volumeVars, argVars, rxAlive, sent, pc, panicMsg, start, stop, done,
                   saved, files, qz, qres, encVars, guiVars>>

\* a collect that drops the error it was handed
Collect_DropError ==
    /\ pc = "map"
    /\ \A z \in DOMAIN workers : workers[z].pc \in {"ok", "err", "skipped"}
    /\ pc' = "finish"
    /\ UNCHANGED <<volumeVars, argVars, rxAlive, sent, panicMsg, start, stop, workers, done,
                   saved, files, qz, qres, encVars, guiVars>>

\* a collect that removes the files of the run when a frame failed
Collect_Cleanup ==
    /\ pc = "map"
    /\ \A z \in DOMAIN workers : workers[z].pc \in {"ok", "err", "skipped"}
    /\ pc' = IF saved = <<>> THEN "finish" ELSE "err"
    /\ files' = IF saved = <<>> THEN files ELSE dir0
    /\ UNCHANGED <<volumeVars, argVars, rxAlive, sent, panicMsg, start, stop, workers, done,
                   saved, qz, qres, encVars, guiVars>>

\* convert.rs 91-92: the collect ends when every frame has ended; res?
Collect ==
    /\ pc = "map"
    /\ \A z \in DOMAIN workers : workers[z].pc \in {"ok", "err", "skipped"}
    /\ pc' = IF saved = <<>> THEN "finish" ELSE "err"
    /\ UNCHANGED <<volumeVars, argVars, rxAlive, sent, panicMsg, start, stop, workers, done,
                   saved, files, qz, qres, encVars, guiVars>>

\* convert.rs 94-106: send(Done).unwrap(); Ok(())
SendDone ==
    /\ pc = "finish"
    /\ IF ~sink
       THEN /\ pc' = "ok"
            /\ UNCHANGED <<sent, panicMsg>>
       ELSE IF rxAlive
       THEN /\ pc' = "ok"
            /\ sent' = Append(sent, Done(Total))
            /\ UNCHANGED panicMsg
       ELSE /\ pc' = "panic"
            /\ panicMsg' = "unwrap on Err: sending Done"
            /\ UNCHANGED sent
    /\ UNCHANGED <<volumeVars, argVars, rxAlive, start, stop, workers, done, saved, files,
                   qz, qres, encVars, guiVars>>

\* gui.rs 329-342: the thread that ran convert sends Error when it got Err
ReportError ==
    /\ pc = "err"
    /\ sink
    /\ IF rxAlive
       THEN /\ pc' = "reported"
            /\ sent' = Append(sent, Error(saved[1].err))
            /\ UNCHANGED panicMsg
       ELSE /\ pc' = "panic"
            /\ panicMsg' = "unwrap on Err: sending Error"
            /\ UNCHANGED sent
    /\ UNCHANGED <<volumeVars, argVars, rxAlive, start, stop, workers, done, saved, files,
                   qz, qres, encVars, guiVars>>

\* the consumer drops the Receiver while the thread is still running
DropReceiver ==
    /\ sink
    /\ rxAlive
    /\ pc \in {"call", "map", "finish", "err"}
    /\ rxAlive' = FALSE
    /\ UNCHANGED <<volumeVars, argVars, sent, pc, panicMsg, start, stop, workers, done,
                   saved, files, qz, qres, encVars, guiVars>>

Next ==
    \/ Call
    \/ \E z \in 0..(MaxDepth + 1) : Encode(z)
    \/ \E z \in 0..(MaxDepth + 1) : FetchAdd(z)
    \/ \E z \in 0..(MaxDepth + 1) : Load(z)
    \/ \E z \in 0..(MaxDepth + 1) : Send(z)
    \/ \E z \in 0..(MaxDepth + 1) : Skip(z)
    \/ Collect
    \/ SendDone
    \/ ReportError
    \/ DropReceiver

Spec == Init /\ [][Next]_vars

\* the threads of the rayon pool and the thread that called convert are
\* scheduled by the operating system: a step that stays possible is taken.
\* The receiver is dropped by the consumer, which owes the export nothing.
Fairness ==
    /\ WF_vars(Call)
    /\ \A z \in 0..(MaxDepth + 1) :
          /\ WF_vars(Encode(z))
          /\ WF_vars(FetchAdd(z))
          /\ WF_vars(Load(z))
          /\ WF_vars(Send(z))
          /\ WF_vars(Skip(z))
    /\ WF_vars(Collect)
    /\ WF_vars(SendDone)
    /\ WF_vars(ReportError)

SpecFair == Spec /\ Fairness

\* ------------------------------------------------- get_slice on its own
\* the volumes and indices get_slice is called with, among them volumes whose
\* buffer is shorter than the reported dimensions
InitSlice ==
    /\ NoGui
    /\ nx \in 1..MaxDim
    /\ ny \in 1..MaxDim
    /\ nz \in 1..MaxDepth
    /\ bufLen \in {nx * ny * nz - s : s \in 0..MaxShort} \cap Nat
    /\ qz \in 0..(MaxDepth + 1)
    /\ qres = <<>>
    /\ NoEncoderCall
    /\ endianess = "Big"
    /\ host = "II"
    /\ start_at_frame = 1
    /\ stop_at_frame = <<>>
    /\ sink = FALSE
    /\ files = <<>>
    /\ dir0 = <<>>
    /\ rxAlive = TRUE
    /\ sent = <<>>
    /\ pc = "slice"
    /\ panicMsg = ""
    /\ start = 0
    /\ stop = 0
    /\ workers = <<>>
    /\ done = 0
    /\ saved = <<>>

\* a call volume.get_slice(qz)
GetSliceCall ==
    /\ pc = "slice"
    /\ qres = <<>>
    /\ qres' = <<get_slice(qz)>>
    /\ UNCHANGED <<volumeVars, argVars, rxAlive, sent, pc, panicMsg, start, stop, workers,
                   done, saved, files, qz, encVars, guiVars>>

NextSlice == GetSliceCall

SpecSlice == InitSlice /\ [][NextSlice]_vars

\* ------------------------------------------- the command-line program
\* main.rs 109-123: the arguments (volume, destination, endianess) and the
\* volume; the program has no frame range and no progress channel
InitCli ==
    /\ NoGui
    /\ \E shape \in Shapes : nx = shape[1] /\ ny = shape[2]
    /\ nz \in 1..MaxDepth
    /\ bufLen = nx * ny * nz
    /\ endianess \in {"Big", "Native"}
    /\ host \in {"II", "MM"}
    /\ files \in DestDirs
    /\ dir0 = files
    /\ start_at_frame = 1
    /\ stop_at_frame = <<>>
    /\ sink = FALSE
    /\ rxAlive = TRUE
    /\ sent = <<>>
    /\ pc = "cli_map"
    /\ panicMsg = ""
    /\ start = 0
    /\ stop = nz
    /\ workers = [z \in 0..(nz - 1) |-> IdleWorker]
    /\ done = 0
    /\ saved = <<>>
    /\ qz = 0
    /\ qres = <<>>
    /\ NoEncoderCall

\* main.rs 128: format!("slice_{z:05}.tif")
CliOutPath(z) == OutPath(z)

\* main.rs 126-139: the closure of frame z
CliEncode(z) ==
    /\ pc = "cli_map"
    /\ z \in DOMAIN workers
    /\ workers[z].pc = "idle"
    /\ Cardinality(InFlight) < MaxThreads
    /\ LET slice == get_slice(z)
           out_path == CliOutPath(z)
       IN  IF ~slice.ok
           THEN /\ workers' = [workers EXCEPT ![z] = [@ EXCEPT !.pc = "err", !.err = slice.err]]
                /\ saved' = Keep(z, slice.err)
                /\ UNCHANGED files
           ELSE LET r == IF endianess = "Big"
                         THEN write_tiff_big_endian(files, out_path, slice.data, nx, ny)
                         ELSE write_tiff_native_endian(files, out_path, slice.data, nx, ny, host)
                IN  IF r.ok
                    THEN /\ files' = r.dir
                         /\ workers' = [workers EXCEPT ![z] =
                                           [@ EXCEPT !.pc = "ok", !.path = out_path]]
                         /\ UNCHANGED saved
                    ELSE /\ workers' = [workers EXCEPT ![z] =
                                           [@ EXCEPT !.pc = "err", !.err = r.err]]
                         /\ saved' = Keep(z, r.err)
                         /\ UNCHANGED files
    /\ UNCHANGED <<volumeVars, argVars, rxAlive, sent, pc, panicMsg, start, stop, done,
                   qz, qres, encVars, guiVars>>

\* main.rs 124-140: frames not started when an error was collected may be dropped
CliSkip(z) ==
    /\ pc = "cli_map"
    /\ z \in DOMAIN workers
    /\ workers[z].pc = "idle"
    /\ saved # <<>>
    /\ workers' = [workers EXCEPT ![z].pc = "skipped"]
    /\ UNCHANGED <<volumeVars, argVars, rxAlive, sent, pc, panicMsg, start, stop, done,
                   saved, files, qz, qres, encVars, guiVars>>

\* main.rs 140-143: collect; res?; Ok(())
CliCollect ==
    /\ pc = "cli_map"
    /\ \A z \in DOMAIN workers : workers[z].pc \in {"ok", "err", "skipped"}
    /\ pc' = IF saved = <<>> THEN "cli_ok" ELSE "cli_err"
    /\ UNCHANGED <<volumeVars, argVars, rxAlive, sent, panicMsg, start, stop, workers, done,
                   saved, files, qz, qres, encVars, guiVars>>

NextCli ==
    \/ \E z \in 0..MaxDepth : CliEncode(z)
    \/ \E z \in 0..MaxDepth : CliSkip(z)
    \/ CliCollect

SpecCli == InitCli /\ [][NextCli]_vars

\* ------------------------------------- the big-endian byte loop on its own
\* no export is running
NoExport ==
    /\ endianess = "Big"
    /\ host = "II"
    /\ start_at_frame = 1
    /\ stop_at_frame = <<>>
    /\ sink = FALSE
    /\ files = <<>>
    /\ dir0 = <<>>
    /\ rxAlive = TRUE
    /\ sent = <<>>
    /\ panicMsg = ""
    /\ start = 0
    /\ stop = 0
    /\ workers = <<>>
    /\ done = 0
    /\ saved = <<>>
    /\ qz = 0
    /\ qres = <<>>

\* the slices the loop is run on: every single i16, and every pair of
\* samples of the palette
InitEncode ==
    /\ NoGui
    /\ encSamples \in {<<v>> : v \in -32768..32767}
                      \cup {<<Palette[i], Palette[j]>> : i, j \in 1..Len(Palette)}
    /\ encBytes = <<>>
    /\ ifdDims = <<>>
    /\ ifdOut = <<>>
    /\ nx = Len(encSamples)
    /\ ny = 1
    /\ nz = 1
    /\ bufLen = Len(encSamples)
    /\ pc = "encode"
    /\ NoExport

\* write.rs 26-29: for value in data.iter() { write_i16::<BigEndian>(*value) }
ByteLoop ==
    /\ pc = "encode"
    /\ encBytes = <<>>
    /\ encBytes' = ImageBytes(encSamples, "MM")
    /\ UNCHANGED <<volumeVars, argVars, rxAlive, sent, pc, panicMsg, start, stop, workers,
                   done, saved, files, qz, qres, encSamples, ifdDims, ifdOut, guiVars>>

NextEncode == ByteLoop

SpecEncode == InitEncode /\ [][NextEncode]_vars

\* ------------------------------------------- the directory of the encoder
\* a usize below 2^31 as its eight bytes, least significant first
Usize(n) ==
    [i \in 1..8 |->
        IF i = 1 THEN n % 256
        ELSE IF i = 2 THEN (n \div 256) % 256
        ELSE IF i = 3 THEN (n \div 65536) % 256
        ELSE IF i = 4 THEN (n \div 16777216) % 256
        ELSE 0]

\* the sum of a[i] * b[k + 1 - i] for i..k: column k of the long product
RECURSIVE Conv(_, _, _, _)
Conv(a, b, k, i) == IF i > k THEN 0 ELSE a[i] * b[k + 1 - i] + Conv(a, b, k, i + 1)

\* the bytes k..8 of the product of two usize, with the carry of column k - 1
RECURSIVE MulDigits(_, _, _, _)
MulDigits(a, b, k, carry) ==
    IF k > 8
    THEN <<>>
    ELSE LET col == carry + Conv(a, b, k, 1)
         IN  <<col % 256>> \o MulDigits(a, b, k + 1, col \div 256)

\* usize * usize, 64 bits wide
usize_mul(a, b) == MulDigits(a, b, 1, 0)

\* `as u32` on a usize: the four low bytes
as_u32(x) == [i \in 1..4 |-> x[i]]

\* the value of a u32 as a usize
Widen(u) == [i \in 1..8 |-> IF i <= 4 THEN u[i] ELSE 0]

\* the widths and heights of the encoded slices: small ones, the ones around
\* 2^8, 2^15, 2^16 and the square root of 2^31, and the largest an MRC
\* header holds
DimChoices == {1, 2, 3, 255, 256, 32768, 46341, 65536, 65537, 2147483647}

InitIfd ==
    /\ NoGui
    /\ ifdDims \in {<<w, h>> : w, h \in DimChoices}
    /\ ifdOut = <<>>
    /\ encSamples = <<>>
    /\ encBytes = <<>>
    /\ nx = 1
    /\ ny = 1
    /\ nz = 1
    /\ bufLen = 1
    /\ pc = "ifd"
    /\ NoExport

\* write.rs 26-48 on a slice of width * height samples (read.rs 22): the
\* byte loop appends two bytes per sample, and the directory takes
\* height as u32, width as u32 and image_bytes.len() as u32
BuildIfd ==
    /\ pc = "ifd"
    /\ ifdOut = <<>>
    /\ LET width == Usize(ifdDims[1])
           height == Usize(ifdDims[2])
           data_len == usize_mul(width, height)
           image_bytes_len == usize_mul(Usize(2), data_len)
       IN  ifdOut' = <<[ImageLength |-> as_u32(height),
                        ImageWidth |-> as_u32(width),
                        RowsPerStrip |-> as_u32(height),
                        StripByteCounts |-> as_u32(image_bytes_len),
                        image_bytes_len |-> image_bytes_len]>>
    /\ UNCHANGED <<volumeVars, argVars, rxAlive, sent, pc, panicMsg, start, stop, workers,
                   done, saved, files, qz, qres, encSamples, encBytes, ifdDims, guiVars>>

NextIfd == BuildIfd

SpecIfd == InitIfd /\ [][NextIfd]_vars

\* ---------------------------------------------------------------- the GUI
\* A usize near the ends of its range: -1 stands for usize::MAX, so that
\* + 1 and - 1 wrap as they do in a release build.
\* the order of usize
ULt(a, b) == IF (a < 0) = (b < 0) THEN a < b ELSE b < 0

\* gui.rs 177, 268, 287: Slider::new and DragValue::range clamp the value they
\* show to the range; egui exchanges the ends of a range given in reverse
clamp_value_to_range(x, lo, hi) ==
    LET min == IF ULt(hi, lo) THEN hi ELSE lo
        max == IF ULt(hi, lo) THEN lo ELSE hi
    IN  IF ~ULt(min, x) THEN min ELSE IF ~ULt(x, max) THEN max ELSE x

\* the values a user can leave in a widget of that range
WidgetValues(lo, hi) == IF hi < lo THEN hi..lo ELSE lo..hi

\* the depths of the stacks the user can load: a single frame, which makes
\* the range of the start field run backwards, and more than one
StackSizes == {1, 2}

\* gui.rs 63-78: load_data on a stack of num_frames frames
load_data(num_frames) ==
    [num_frames |-> num_frames,
     slice_position |-> 0,
     export_start |-> 0,
     export_end |-> num_frames,
     background_progress |-> <<>>]

\* gui.rs 354-388: the receive loop on the queue q of the running export;
\* alive: the thread still holds a sender. The numbers of the progress bar
\* (background_progress_nums) are shown and never read back: left out
RECURSIVE recv_loop(_, _, _)
recv_loop(data, q, alive) ==
    LET cleared == [data EXCEPT !.background_progress = <<>>]
    IN  IF q = <<>>
        THEN IF alive
             THEN [data |-> data, q |-> q, error |-> <<>>]
             ELSE [data |-> cleared, q |-> q, error |-> <<>>]
        ELSE IF Head(q).type = "InProgress"
        THEN recv_loop(data, Tail(q), alive)
        ELSE IF Head(q).type = "Done"
        THEN [data |-> cleared, q |-> Tail(q), error |-> <<>>]
        ELSE [data |-> data, q |-> Tail(q), error |-> <<"Error while converting">>]

\* a sender that never goes away
ThreadActive_Always(c) == threads[c].pc \in {"call", "map", "done", "failed", "panicked"}

\* the thread of export c has neither ended nor panicked
ThreadActive(c) == threads[c].pc \in {"call", "map"}

\* the receiver of export c is held by the input data of the app
ReceiverAlive(c) ==
    /\ app.pc = "running"
    /\ app.input_data # <<>>
    /\ app.input_data[1].background_progress = <<c>>

\* gui.rs 203: the old input data is dropped with its receiver, and the
\* messages still queued for it go with it
Dropped(background_progress) ==
    IF background_progress = <<>>
    THEN chans
    ELSE [chans EXCEPT ![background_progress[1]] = <<>>]

\* the inputs of a frame: nothing, a click on one of the buttons or a key,
\* or a value left in the slider or in a DragValue (for load: the depth of
\* the stack picked, 0 when it cannot be loaded)
UserEvents ==
    {[kind |-> k, v |-> 0] :
        k \in {"none", "continue", "dest", "left", "right", "start_preview",
               "end_preview", "export"}}
    \cup {[kind |-> "load", v |-> n] : n \in {0} \cup StackSizes}
    \cup {[kind |-> k, v |-> n] :
             k \in {"slider", "start_drag", "end_drag"}, n \in {0} \cup StackSizes}

\* the widget of the event is drawn in this frame and can take the value
Possible(ev) ==
    IF ev.kind = "none"
    THEN TRUE
    ELSE IF app.error_state # <<>>
    THEN ev.kind = "continue"
    ELSE IF ev.kind = "load"
    THEN TRUE
    ELSE /\ app.input_data # <<>>
         /\ ev.kind # "continue"
         /\ ev.kind \in {"slider", "end_drag"} => ev.v \in 1..app.input_data[1].num_frames
         /\ ev.kind = "start_drag" => ev.v \in WidgetValues(1, app.input_data[1].export_end)

\* gui.rs 211-400: the parameter grid and the receive loop of one frame, for
\* the input data d left by the slider and the load button, the event ev and
\* the queues kept: arrow keys, the two DragValues with their buttons, the
\* export button, the note under it, the receive loop. overflow: a usize
\* operation left its range, which panics in a debug build and wraps in a
\* release build
parameter_grid(d, ev, kept) ==
    \E slice_position \in
           {IF ev.kind = "left"
            THEN IF d.slice_position = 0 THEN 0 ELSE d.slice_position - 1
            ELSE IF ev.kind = "right"
            THEN IF d.slice_position + 1 < d.num_frames - 1
                 THEN d.slice_position + 1 ELSE d.num_frames - 1
            ELSE d.slice_position} :
    \E export_start_drag \in
           {IF ev.kind = "start_drag"
            THEN ev.v
            ELSE clamp_value_to_range(d.export_start + 1, 1, d.export_end)} :
    \E export_start \in
           {IF ev.kind = "start_preview" THEN slice_position ELSE export_start_drag - 1} :
    \E export_end_drag \in
           {IF ev.kind = "end_drag"
            THEN ev.v
            ELSE clamp_value_to_range(d.export_end + 1, 1, d.num_frames)} :
    \E export_end \in
           {IF ev.kind = "end_preview" THEN slice_position ELSE export_end_drag - 1} :
    \E dest_directory \in {app.dest_directory \/ ev.kind = "dest"} :
    \E clicked \in
           {/\ ev.kind = "export"
            /\ dest_directory
            /\ d.background_progress = <<>>
            /\ Len(threads) < MaxExports} :
    \E overflow \in
           {\/ d.export_start = -1
            \/ export_start_drag = 0
            \/ clicked /\ export_start = -1
            \/ ULt(export_end + 1, export_start)} :
    \E data \in
           {[d EXCEPT !.slice_position = slice_position,
                      !.export_start = export_start,
                      !.export_end = export_end,
                      !.background_progress = IF clicked THEN <<Len(threads) + 1>> ELSE @]} :
    \E c \in {IF data.background_progress = <<>> THEN 0 ELSE data.background_progress[1]} :
    \E r \in {IF c = 0 \/ clicked
              THEN [data |-> data, q |-> <<>>, error |-> <<>>]
              ELSE recv_loop(data, chans[c], ThreadActive(c))} :
        IF build = "debug" /\ overflow
        THEN /\ app' = [app EXCEPT !.pc = "crashed"]
             /\ UNCHANGED <<threads, chans>>
        ELSE /\ app' = [app EXCEPT !.input_data = <<r.data>>,
                                   !.dest_directory = dest_directory,
                                   !.error_state = r.error]
             /\ threads' = IF clicked
                           THEN Append(threads,
                                       [pc |-> "call",
                                        start_at_frame |-> export_start + 1,
                                        stop_at_frame |-> export_end + 1,
                                        nz |-> d.num_frames,
                                        sent |-> 0,
                                        total |-> 0])
                           ELSE threads
             /\ chans' = IF clicked
                         THEN Append(kept, <<>>)
                         ELSE IF c = 0 THEN kept
                         ELSE [kept EXCEPT ![c] = r.q]

\* gui.rs 166-198: the slider of the bottom panel on the input data d
preview_slider(d, ev) ==
    [d EXCEPT !.slice_position =
        (IF ev.kind = "slider"
         THEN ev.v
         ELSE clamp_value_to_range(d.slice_position + 1, 1, d.num_frames)) - 1]

\* gui.rs 110-161 and 164-400: ConverterApp::update for one frame, in which
\* the user does ev: the error panel, or the first load button, or
\* render_with_data (slider, load button, parameter grid, receive loop)
Update(ev) ==
    /\ pc = "gui"
    /\ app.pc = "running"
    /\ Possible(ev)
    /\ IF app.error_state # <<>>
       THEN /\ app' = IF ev.kind = "continue" THEN [app EXCEPT !.error_state = <<>>] ELSE app
            /\ UNCHANGED <<threads, chans>>
       ELSE IF app.input_data = <<>>
       THEN /\ app' = IF ev.kind # "load"
                      THEN app
                      ELSE IF ev.v = 0
                      THEN [app EXCEPT !.error_state = <<"Error loading data">>]
                      ELSE [app EXCEPT !.input_data = <<load_data(ev.v)>>]
            /\ UNCHANGED <<threads, chans>>
       ELSE IF ev.kind = "load" /\ ev.v = 0
       THEN /\ app' = [app EXCEPT !.input_data = <<>>,
                                  !.error_state = <<"Error loading data">>]
            /\ chans' = Dropped(app.input_data[1].background_progress)
            /\ UNCHANGED threads
       ELSE IF ev.kind = "load"
       THEN parameter_grid(load_data(ev.v), ev,
                           Dropped(app.input_data[1].background_progress))
       ELSE parameter_grid(preview_slider(app.input_data[1], ev), ev, chans)
    /\ UNCHANGED build
    /\ UNCHANGED <<volumeVars, argVars, rxAlive, sent, pc, panicMsg, start, stop, workers,
                   done, saved, files, qz, qres, encVars>>

\* a thread that is over, and how: its arguments and counters are gone
Ended(how) ==
    [pc |-> how, start_at_frame |-> 1, stop_at_frame |-> 1, nz |-> 1, sent |-> 0, total |-> 0]

\* gui.rs 336-339: convert returned Err and the thread sends Error, unwrapped:
\* the state of the thread and of its queue after that
ErrorSent(c) ==
    IF ReceiverAlive(c)
    THEN [threads |-> [threads EXCEPT ![c] = Ended("failed")],
          chans |-> [chans EXCEPT ![c] = Append(@, Error("convert"))]]
    ELSE [threads |-> [threads EXCEPT ![c] = Ended("panicked")],
          chans |-> chans]

\* gui.rs 329-342 into convert.rs 40-63: the thread of export c opens the
\* stack again, which may fail, computes the range and asserts it
ThreadCall(c) ==
    /\ pc = "gui"
    /\ app.pc = "running"
    /\ c \in 1..Len(threads)
    /\ threads[c].pc = "call"
    /\ LET t == threads[c]
           first == t.start_at_frame - 1
       IN  \/ /\ threads' = ErrorSent(c).threads
              /\ chans' = ErrorSent(c).chans
           \/ /\ threads' = IF ULt(t.stop_at_frame, first)
                            THEN [threads EXCEPT ![c] = Ended("panicked")]
                            ELSE [threads EXCEPT ![c].pc = "map",
                                                 ![c].total = t.stop_at_frame - first]
              /\ UNCHANGED chans
    /\ UNCHANGED <<app, build>>
    /\ UNCHANGED <<volumeVars, argVars, rxAlive, sent, pc, panicMsg, start, stop, workers,
                   done, saved, files, qz, qres, encVars>>

\* convert.rs 65-92: one more frame of export c ends: it fails in the reader
\* or the writer, or it is written and reported, which fails when the
\* receiver is gone; either failure makes convert return Err
ThreadFrame(c) ==
    /\ pc = "gui"
    /\ app.pc = "running"
    /\ c \in 1..Len(threads)
    /\ threads[c].pc = "map"
    /\ threads[c].sent < threads[c].total
    /\ \/ /\ threads' = ErrorSent(c).threads
          /\ chans' = ErrorSent(c).chans
       \/ /\ threads[c].start_at_frame - 1 + threads[c].sent < threads[c].nz
          /\ IF ReceiverAlive(c)
             THEN /\ chans' = [chans EXCEPT ![c] =
                                  Append(@, InProgress(threads[c].sent + 1, threads[c].total))]
                  /\ threads' = [threads EXCEPT ![c].sent = @ + 1]
             ELSE /\ threads' = ErrorSent(c).threads
                  /\ chans' = ErrorSent(c).chans
    /\ UNCHANGED <<app, build>>
    /\ UNCHANGED <<volumeVars, argVars, rxAlive, sent, pc, panicMsg, start, stop, workers,
                   done, saved, files, qz, qres, encVars>>

\* convert.rs 94-106: every frame is done; Done is sent and unwrapped
ThreadDone(c) ==
    /\ pc = "gui"
    /\ app.pc = "running"
    /\ c \in 1..Len(threads)
    /\ threads[c].pc = "map"
    /\ threads[c].sent = threads[c].total
    /\ IF ReceiverAlive(c)
       THEN /\ chans' = [chans EXCEPT ![c] = Append(@, Done(threads[c].total))]
            /\ threads' = [threads EXCEPT ![c] = Ended("done")]
       ELSE /\ threads' = [threads EXCEPT ![c] = Ended("panicked")]
            /\ UNCHANGED chans
    /\ UNCHANGED <<app, build>>
    /\ UNCHANGED <<volumeVars, argVars, rxAlive, sent, pc, panicMsg, start, stop, workers,
                   done, saved, files, qz, qres, encVars>>

\* gui.rs 84-108: the app starts with the stack of the command line, or
\* with none
InitGui ==
    /\ app \in {[pc |-> "running", input_data |-> i, dest_directory |-> FALSE,
                 error_state |-> <<>>] :
                    i \in {<<>>} \cup {<<load_data(n)>> : n \in StackSizes}}
    /\ build \in {"debug", "release"}
    /\ threads = <<>>
    /\ chans = <<>>
    /\ encSamples = <<>>
    /\ encBytes = <<>>
    /\ ifdDims = <<>>
    /\ ifdOut = <<>>
    /\ nx = 1
    /\ ny = 1
    /\ nz = 1
    /\ bufLen = 1
    /\ pc = "gui"
    /\ NoExport

NextGui ==
    \/ \E ev \in UserEvents : Update(ev)
    \/ \E c \in 1..MaxExports : ThreadCall(c)
    \/ \E c \in 1..MaxExports : ThreadFrame(c)
    \/ \E c \in 1..MaxExports : ThreadDone(c)

SpecGui == InitGui /\ [][NextGui]_vars

\* egui draws a frame after every input and, while an export is tracked,
\* every 16 ms (gui.rs 397): a frame without input that would change
\* something is drawn. Nothing is assumed of the user or of the export threads
FairnessGui == WF_vars(Update([kind |-> "none", v |-> 0]))

SpecGuiFair == SpecGui /\ FairnessGui

\* ------------------------------------------------------------- properties
\* the InProgress messages of the channel, in channel order
InProgressSent == SelectSeq(sent, LAMBDA m : m.type = "InProgress")

\* the Done messages of the channel
DoneSent == SelectSeq(sent, LAMBDA m : m.type = "Done")

\* stop_at_frame.unwrap_or(nz), from the arguments
StopArg == IF stop_at_frame = <<>> THEN nz ELSE stop_at_frame[1]

\* the number of frames the arguments ask for
FramesAsked == StopArg - (start_at_frame - 1)

\* errors a frame raises by itself: bounds and I/O
FrameErrors == {"InvalidDimensions", "AlreadyExists", "IsADirectory"}

\* some frame was handed to the collect with an error of its own
FrameFailed == \E z \in DOMAIN workers : workers[z].err \in FrameErrors

\* the name slice_0000k.tif, for k below 10
SliceName(k) == <<"slice_", 0, 0, 0, 0, k, ".tif">>

\* the i16 samples a TIFF reader decodes from the strip of a file
RECURSIVE DecodeStrip(_, _)
DecodeStrip(strip, order) ==
    IF Len(strip) < 2 THEN <<>>
    ELSE LET u == IF order = "MM" THEN strip[1] * 256 + strip[2]
                  ELSE strip[2] * 256 + strip[1]
             v == IF u >= 32768 THEN u - 65536 ELSE u
         IN  <<v>> \o DecodeStrip(SubSeq(strip, 3, Len(strip)), order)

\* the samples of frame z of the volume
FrameSamples(z) == [k \in 1..(nx * ny) |-> Buffer(z * nx * ny + k - 1)]

\* the files the export created or rewrote
Created == {f \in DOMAIN files : IF f \in DOMAIN dir0 THEN files[f] # dir0[f] ELSE TRUE}

\* C1: in a successful export with a sink, the num_done of the InProgress
\* messages in channel order never decreases and never exceeds the number
\* of frames
C1_ProgressNonDecreasing ==
    (pc = "ok" /\ sink) =>
        /\ \A i, j \in 1..Len(InProgressSent) :
              i < j => InProgressSent[i].num_done <= InProgressSent[j].num_done
        /\ \A i \in 1..Len(InProgressSent) : InProgressSent[i].num_done <= FramesAsked

\* C2: with slice_00001.tif already in the destination, in either endianness
\* mode, that file keeps its bytes and an export of at least one frame ends
\* with an I/O error
C2_ExclusiveCreate ==
    (SliceName(1) \in DOMAIN dir0 /\ dir0[SliceName(1)] = PreExisting) =>
        /\ SliceName(1) \in DOMAIN files
        /\ files[SliceName(1)] = PreExisting
        /\ (pc \in {"finish", "ok", "err", "reported"} /\ FramesAsked >= 1) =>
              (saved # <<>> /\ saved[1].err = "AlreadyExists")

\* C3: a failed send of InProgress does not abort the batch: when no frame
\* failed by itself, the collect ends with every frame of the range written
\* and with no error
C3_SendFailureSwallowed ==
    (pc \notin {"call", "map", "panic", "slice"} /\ ~FrameFailed) =>
        /\ saved = <<>>
        /\ \A z \in DOMAIN workers : workers[z].path # <<>>

\* C4: when all frames were written and collected without error, convert
\* returns Ok and does not panic, also when the receiver is gone
C4_DoneFailureHarmless ==
    (workers # <<>> /\ \A z \in DOMAIN workers : workers[z].pc = "ok") =>
        pc \in {"map", "finish", "ok"}

\* C5: a successful export creates exactly slice_00001.tif .. slice_{N}.tif,
\* N = stop - start, and slice_{k} holds the samples of frame start + k - 1
C5_RelativeNaming ==
    pc = "ok" =>
        /\ Created = {SliceName(k) : k \in 1..FramesAsked}
        /\ \A k \in 1..FramesAsked :
              /\ SliceName(k) \in DOMAIN files
              /\ DecodeStrip(files[SliceName(k)].strip, files[SliceName(k)].order)
                    = FrameSamples(start_at_frame - 1 + k - 1)

C5_Witness ==
    /\ pc = "ok"
    /\ start_at_frame >= 2
    /\ FramesAsked >= 1
    /\ nx * ny >= 2

\* C6: on a volume whose buffer has nx*ny*nz samples, get_slice(z) returns
\* the nx*ny samples buffer[z*nx*ny .. (z+1)*nx*ny] when z < nz and fails
\* with the bounds error, returning no samples, when z >= nz
C6_GetSlice ==
    (qres # <<>> /\ bufLen = nx * ny * nz) =>
        IF qz < nz
        THEN /\ qres[1].ok
             /\ Len(qres[1].data) = nx * ny
             /\ \A k \in 1..(nx * ny) : qres[1].data[k] = Buffer(qz * nx * ny + k - 1)
        ELSE /\ ~qres[1].ok
             /\ qres[1].err = "InvalidDimensions"
             /\ qres[1].data = <<>>

C6_Witness ==
    /\ qres # <<>>
    /\ bufLen = nx * ny * nz
    /\ qz >= 1
    /\ qz < nz
    /\ nx >= 2
    /\ ny >= 2
    /\ qres[1].ok

\* C7: an export invoked with stop beyond the depth ends in a panic before
\* any frame work: no file written, no message sent, no error returned
C7_StopBeyondDepthAsserted ==
    (pc # "call" /\ StopArg > nz) =>
        /\ pc = "panic"
        /\ files = dir0
        /\ sent = <<>>

\* C8: an export invoked with start > stop panics at once on the
\* precondition, with no file written and no message sent
C8_StartAfterStop ==
    (pc \notin {"call", "slice"} /\ (start_at_frame = 0 \/ start_at_frame - 1 > StopArg)) =>
        /\ pc = "panic"
        /\ panicMsg \in {"assertion failed: start <= stop",
                         "attempt to subtract with overflow"}
        /\ start_at_frame >= 1 => panicMsg = "assertion failed: start <= stop"
        /\ files = dir0
        /\ sent = <<>>
        /\ workers = <<>>
        /\ done = 0

C8_Witness ==
    /\ pc = "panic"
    /\ sink
    /\ rxAlive
    /\ start_at_frame >= 1
    /\ start_at_frame - 1 > StopArg

\* C9: a successful export with a sink sends exactly one Done, with
\* total = stop - start, as the last message of the channel, after every
\* InProgress; Done is sent in no other run
C9_DoneLast ==
    /\ (pc = "ok" /\ sink) =>
          /\ Len(DoneSent) = 1
          /\ sent[Len(sent)] = Done(FramesAsked)
          /\ \A i \in 1..(Len(sent) - 1) : sent[i].type = "InProgress"
    /\ DoneSent # <<>> => pc = "ok"

C9_Witness ==
    /\ pc = "ok"
    /\ sink
    /\ start_at_frame >= 2
    /\ Len(sent) >= 2

\* C10: when an export with a sink fails on an error of a frame, no Done is
\* sent, and the thread sends Error as the last message; only a receiver
\* that is gone keeps Error out of the channel
C10_ErrorInsteadOfDone ==
    (sink /\ saved # <<>> /\ saved[1].err \in FrameErrors) =>
        /\ DoneSent = <<>>
        /\ pc \in {"map", "err", "reported", "panic"}
        /\ pc = "reported" => sent[Len(sent)] = Error(saved[1].err)
        /\ pc = "panic" => (~rxAlive /\ panicMsg = "unwrap on Err: sending Error")
        /\ pc \in {"map", "err"} => (\A i \in 1..Len(sent) : sent[i].type = "InProgress")

C10_Witness ==
    /\ pc = "reported"
    /\ saved[1].err \in {"AlreadyExists", "IsADirectory"}
    /\ InProgressSent # <<>>

\* convert has returned Err: the collect kept an error and res? passed it on
ReturnedErr == saved # <<>> /\ pc \in {"err", "reported", "panic"}

\* C11: convert returns an error exactly when a frame of the range failed by
\* itself (bounds, I/O), the error is that of a failing frame, and it
\* returns Ok only with all stop - start frames written
C11_ErrIffFrameFailed ==
    /\ ReturnedErr =>
          /\ FrameFailed
          /\ saved[1].err \in FrameErrors
          /\ workers[saved[1].z].err = saved[1].err
    /\ (FrameFailed /\ pc # "map") => ReturnedErr
    /\ pc = "ok" =>
          /\ \A z \in DOMAIN workers : workers[z].path # <<>>
          /\ Cardinality(DOMAIN workers) = FramesAsked

\* C12: with 1 <= start_at_frame <= stop_at_frame <= depth the frames of the
\* export are exactly z = start_at_frame - 1 .. stop_at_frame - 1, the stop
\* frame included, and a successful export wrote each of them, which makes
\* stop_at_frame - start_at_frame + 1 files; without stop_at_frame the
\* frames run through z = depth - 1
C12_InclusiveStop ==
    (pc \notin {"call", "slice"} /\ start_at_frame >= 1 /\ start_at_frame <= StopArg
        /\ StopArg <= nz) =>
        LET last == IF stop_at_frame = <<>> THEN nz - 1 ELSE stop_at_frame[1] - 1
            asked == {z \in 0..(MaxDepth + 1) : start_at_frame - 1 <= z /\ z <= last}
        IN  /\ DOMAIN workers = asked
            /\ pc = "ok" =>
                  /\ \A z \in asked : workers[z].pc = "ok" /\ workers[z].path \in DOMAIN files
                  /\ Cardinality(Created) = last - start_at_frame + 2
                  /\ stop_at_frame # <<>> =>
                        Cardinality(Created) = stop_at_frame[1] - start_at_frame + 1

C12_Witness ==
    /\ pc = "ok"
    /\ stop_at_frame # <<>>
    /\ start_at_frame >= 1
    /\ stop_at_frame[1] = start_at_frame + 1
    /\ Cardinality(Created) = 2

\* the unsigned 16-bit number with the bits of the i16 v
TwosComplement16(v) == IF v < 0 THEN v + 65536 ELSE v

\* C13: the big-endian loop emits, for each sample in slice order, the two
\* bytes of its two's complement with the high byte first, and reading each
\* pair back as a big-endian signed 16-bit integer gives the sample again
C13_BigEndianRoundTrip ==
    encBytes # <<>> =>
        /\ Len(encBytes) = 2 * Len(encSamples)
        /\ \A k \in 1..Len(encSamples) :
              /\ encBytes[2 * k - 1] = TwosComplement16(encSamples[k]) \div 256
              /\ encBytes[2 * k] = TwosComplement16(encSamples[k]) % 256
              /\ encBytes[2 * k - 1] \in 0..255
              /\ encBytes[2 * k] \in 0..255
        /\ DecodeStrip(encBytes, "MM") = encSamples

C13_Witness ==
    /\ encSamples = <<-32768>>
    /\ encBytes = <<128, 0>>

\* C14: the command-line program run over a volume of depth D writes exactly
\* D files, frame z to slice_{z+1:05}.tif, so that slice_00001.tif is the
\* first and there is no slice_00000.tif
C14_CliOneBasedNames ==
    pc = "cli_ok" =>
        /\ Created = {SliceName(z + 1) : z \in 0..(nz - 1)}
        /\ Cardinality(Created) = nz
        /\ SliceName(0) \notin DOMAIN files
        /\ \A z \in 0..(nz - 1) :
              /\ SliceName(z + 1) \in DOMAIN files
              /\ DecodeStrip(files[SliceName(z + 1)].strip, files[SliceName(z + 1)].order)
                    = FrameSamples(z)

\* the frames whose closure has passed done.fetch_add
Counted ==
    {z \in DOMAIN workers :
        workers[z].pc \in {"added", "loaded", "ok"} \/ workers[z].err = "SendError"}

\* C15: the counter stays within 0..total with total = stop - start, never
\* decreases, counts each frame once and only after its file was written,
\* and equals total when the export returns Ok
C15_DoneCounter ==
    /\ [](pc \in {"map", "finish", "ok", "err", "reported", "panic"} =>
            /\ 0 <= done
            /\ (start_at_frame >= 1 /\ start_at_frame - 1 <= StopArg) => done <= FramesAsked
            /\ done = Cardinality(Counted)
            /\ \A z \in Counted :
                  /\ workers[z].path \in DOMAIN files
                  /\ DecodeStrip(files[workers[z].path].strip, files[workers[z].path].order)
                        = FrameSamples(z)
            /\ pc = "ok" => done = FramesAsked)
    /\ [][done' >= done /\ done' <= done + 1]_vars

C15_Witness ==
    /\ pc = "ok"
    /\ done = 2
    /\ start_at_frame = 1

\* the frames whose closure returned Ok
FramesOk == {z \in DOMAIN workers : workers[z].pc = "ok"}

\* C16: with a sink and a living consumer, the channel holds one InProgress
\* message per frame that finished, each with total = stop - start; a message
\* is appended only by a frame whose file is already written, and a frame
\* that failed in the reader or the writer sends nothing
C16_OneInProgressPerFrame ==
    /\ []((sink /\ rxAlive /\ pc \in {"map", "finish", "ok", "err", "reported"}) =>
            /\ Len(InProgressSent) = Cardinality(FramesOk)
            /\ \A i \in 1..Len(InProgressSent) :
                  /\ InProgressSent[i].total = stop - start
                  /\ InProgressSent[i].total = FramesAsked
            /\ \A z \in DOMAIN workers :
                  workers[z].err \in FrameErrors => workers[z].pc = "err")
    /\ [][(Len(InProgressSent') > Len(InProgressSent)) =>
            /\ Len(InProgressSent') = Len(InProgressSent) + 1
            /\ \E z \in DOMAIN workers :
                  /\ workers[z].pc = "loaded"
                  /\ workers'[z].pc = "ok"
                  /\ workers[z].path \in DOMAIN files
                  /\ DecodeStrip(files[workers[z].path].strip, files[workers[z].path].order)
                        = FrameSamples(z)
                  /\ \A y \in DOMAIN workers \ {z} : workers'[y] = workers[y]]_vars

C16_Witness ==
    /\ sink
    /\ rxAlive
    /\ pc = "map"
    /\ Len(InProgressSent) = 1
    /\ FrameFailed

\* C17: two different frames of one export get different output paths and
\* read disjoint sample ranges [z*w*h, (z+1)*w*h), and no two workers ever
\* hold the same output path
C17_DistinctPathsDisjointRanges ==
    pc \in {"map", "finish", "ok", "err", "reported"} =>
        \A z1, z2 \in DOMAIN workers :
            z1 # z2 =>
                /\ z1 \in start..(stop - 1)
                /\ OutPath(OutIndex(z1, start)) # OutPath(OutIndex(z2, start))
                /\ SliceBounds(z1) = <<z1 * nx * ny, (z1 + 1) * nx * ny>>
                /\ \/ SliceBounds(z1)[2] <= SliceBounds(z2)[1]
                   \/ SliceBounds(z2)[2] <= SliceBounds(z1)[1]
                /\ (workers[z1].path # <<>> /\ workers[z2].path # <<>>)
                      => workers[z1].path # workers[z2].path

C17_Witness ==
    /\ pc = "map"
    /\ nx * ny > 1
    /\ \E z1, z2 \in DOMAIN workers :
          /\ z1 # z2
          /\ workers[z1].pc = "written"
          /\ workers[z2].pc = "written"

\* C18: a file a worker has written stays in the destination with the
\* samples of its frame, also after the export failed; no step removes or
\* changes a file the run has written
C18_WrittenFilesRemain ==
    /\ [](\A z \in DOMAIN workers :
            workers[z].path # <<>> =>
                /\ workers[z].path \in DOMAIN files
                /\ DecodeStrip(files[workers[z].path].strip, files[workers[z].path].order)
                      = FrameSamples(z))
    /\ [][\A f \in Created : f \in DOMAIN files' /\ files'[f] = files[f]]_vars

C18_Witness ==
    /\ pc \in {"err", "reported"}
    /\ FrameFailed
    /\ \E z \in DOMAIN workers :
          /\ workers[z].path # <<>>
          /\ workers[z].path \in Created

\* C19: on a volume whose buffer is shorter than nx*ny*nz, get_slice(z) for
\* z < nz whose range ends past the buffer fails with the error of z >= nz
\* and returns no samples; a slice that is returned has nx*ny samples, all
\* of them inside the buffer
C19_ShortBufferFails ==
    (qres # <<>> /\ bufLen < nx * ny * nz) =>
        /\ (qz < nz /\ (qz + 1) * nx * ny > bufLen) =>
              /\ ~qres[1].ok
              /\ qres[1].err = "InvalidDimensions"
              /\ qres[1].err = get_slice(nz).err
              /\ qres[1].data = <<>>
        /\ qres[1].ok =>
              /\ Len(qres[1].data) = nx * ny
              /\ (qz + 1) * nx * ny <= bufLen
              /\ \A k \in 1..(nx * ny) : qres[1].data[k] = Buffer(qz * nx * ny + k - 1)

C19_Witness ==
    /\ qres # <<>>
    /\ bufLen < nx * ny * nz
    /\ qz < nz
    /\ qz * nx * ny < bufLen
    /\ (qz + 1) * nx * ny > bufLen
    /\ ~qres[1].ok

\* C20: the directory of the big-endian encoder holds, as 32-bit values,
\* ImageWidth = width, ImageLength = RowsPerStrip = height and
\* StripByteCounts = width*height*2 = the byte length of the pixel block
C20_IfdFieldsExact ==
    ifdOut # <<>> =>
        LET ifd == ifdOut[1]
            width == Usize(ifdDims[1])
            height == Usize(ifdDims[2])
        IN  /\ Widen(ifd.ImageWidth) = width
            /\ Widen(ifd.ImageLength) = height
            /\ ifd.RowsPerStrip = ifd.ImageLength
            /\ Widen(ifd.StripByteCounts) = usize_mul(usize_mul(width, height), Usize(2))
            /\ Widen(ifd.StripByteCounts) = ifd.image_bytes_len

\* C25: a successful export of N >= 1 frames with a sink has sent exactly N
\* InProgress messages, and at least one of them carries num_done = N
C25_FullCountReported ==
    (pc = "ok" /\ sink /\ FramesAsked >= 1) =>
        /\ Len(InProgressSent) = FramesAsked
        /\ \E i \in 1..Len(InProgressSent) : InProgressSent[i].num_done = FramesAsked

C25_Witness ==
    /\ pc = "ok"
    /\ sink
    /\ FramesAsked = 2
    /\ Len(InProgressSent) = 2
    /\ InProgressSent[1].num_done = 2
    /\ InProgressSent[2].num_done = 2

\* the precondition of convert on its arguments
Precondition ==
    /\ start_at_frame >= 1
    /\ start_at_frame - 1 <= StopArg
    /\ StopArg <= nz

\* convert has returned Ok or Err to its caller
Returned ==
    \/ pc \in {"ok", "err", "reported"}
    \/ pc = "panic" /\ panicMsg = "unwrap on Err: sending Error"

\* C23: an export whose precondition holds eventually returns Ok or Err,
\* under fair scheduling of the workers
C23_ExportReturns == (pc = "call" /\ Precondition) ~> Returned

\* C21: every convert the GUI starts gets start_at_frame >= 1 and
\* start_at_frame - 1 <= stop_at_frame <= depth
C21_GuiArgumentsValid ==
    \A c \in 1..Len(threads) :
        /\ threads[c].start_at_frame >= 1
        /\ threads[c].start_at_frame - 1 <= threads[c].stop_at_frame
        /\ threads[c].stop_at_frame <= threads[c].nz

\* the export threads that are running
ActiveThreads == {c \in 1..Len(threads) : ThreadActive(c)}

\* C24: at most one export thread of the GUI is active at a time
C24_OneExportAtATime == Cardinality(ActiveThreads) <= 1

\* the GUI has taken the Error message of export c out of its queue
ErrorReceived(c) ==
    /\ c <= Len(threads)
    /\ threads[c].pc = "failed"
    /\ chans[c] = <<>>
    /\ ReceiverAlive(c)

\* the export button is drawn and enabled
ExportEnabled ==
    /\ app.pc = "running"
    /\ app.error_state = <<>>
    /\ app.input_data # <<>>
    /\ app.dest_directory
    /\ app.input_data[1].background_progress = <<>>

\* C22: the frame that receives Error shows it; once Continue is clicked the
\* export is forgotten and the export button is enabled again, unless the
\* user meanwhile picks a stack that fails to load or the app panics on an
\* overflow; a thread that is over never runs again, and a thread starts
\* only in a frame in which the export button was enabled
C22_ErrorThenFreshExport ==
    /\ [][\A c \in 1..MaxExports :
             (~ErrorReceived(c) /\ ErrorReceived(c)') =>
                 app'.error_state = <<"Error while converting">>]_vars
    /\ ((\E c \in 1..MaxExports : ErrorReceived(c)) /\ app.error_state = <<>>)
          ~> (ExportEnabled \/ app.input_data = <<>> \/ app.pc = "crashed")
    /\ [][/\ \A c \in 1..Len(threads) :
                threads[c].pc \in {"done", "failed", "panicked"} => threads'[c] = threads[c]
          /\ Len(threads') > Len(threads) =>
                /\ Len(threads') = Len(threads) + 1
                /\ app.error_state = <<>>
                /\ app.input_data # <<>>]_vars

C22_Witness ==
    /\ ExportEnabled
    /\ \E c \in 1..Len(threads) : threads[c].pc = "failed" /\ chans[c] = <<>>
    /\ Len(threads) = 1

====
